---- MODULE Spec2Model ----
(***************************************************************************)
(* Pod optimizer of lfg-discord-bot (src/src/lfg_bot/utils/pod_optimizer.py) *)
(* as a state machine: one call of optimize_pods on an availability map    *)
(* and a preference map, stepped through the index build, the critical-    *)
(* player detection, the day sort, the greedy pod loop, the double-play    *)
(* pass, the result assembly, the choice-scenario detection and the        *)
(* formatting of the result.  A second specification, ReportSpec, models   *)
(* the reports of a game result for one pod (utils/database.py,            *)
(* cogs/games.py, utils/game_ui.py).                                       *)
(*                                                                         *)
(* Players are numbered 1..n in the insertion order of the availability    *)
(* dict (player ids are opaque to the optimizer, which only compares them  *)
(* for equality and iterates dicts in insertion order).                    *)
(***************************************************************************)
EXTENDS Integers, Sequences, FiniteSets, TLC

VARIABLES
    availability,          \* input: player -> list of days (dict, key order 1..n)
    preferences,           \* input: player -> set of preference flags
    pc,                    \* position of the call
    day_to_players,        \* dict day -> list of players, as its items() list
    critical_assignments,  \* dict player -> day the player is reserved to
    reserved_players,      \* set of players still reserved
    sorted_days,           \* items of day_to_players in processing order
    day_index,             \* position of the `for day, available` loop
    pods,                  \* list of PodAssignment
    assigned_players,      \* set of players in some pod
    player_assigned_days,  \* player -> list of days the player was assigned
    double_play_opportunity, \* dict of the double-play pass, or NoChoice
    result,                \* OptimizationResult under construction
    released_at,           \* history: released player -> index of the day whose end released them
    message,               \* lines returned by format_pod_results
    game_results,          \* rows of the GameResult table for the pod
    pod_status,            \* Pod.status of the pod
    reporter_pc,           \* reporter -> position in the report dialog
    reporter_winner        \* reporter -> winner chosen in the modal

\* the tables and dialogs of the game-result reports
report_vars == << game_results, pod_status, reporter_pc, reporter_winner >>

vars == << availability, preferences, pc, day_to_players, critical_assignments,
           reserved_players, sorted_days, day_index, pods, assigned_players,
           player_assigned_days, double_play_opportunity, result, released_at,
           message, report_vars >>

(***************************************************************************)
(* Bounds of the model.                                                    *)
(***************************************************************************)
MaxPlayers == 8

MaxReporters == 3

(***************************************************************************)
(* Program constants.                                                      *)
(***************************************************************************)
PodSize == 4

PREF_ONE_GAME_ONLY == "one_game_only"

PREF_NO_CONSECUTIVE == "no_consecutive"

CanonicalDays ==
    << "Monday", "Tuesday", "Wednesday", "Thursday", "Friday", "Saturday", "Sunday" >>

CanonicalDaySet == { CanonicalDays[i] : i \in 1..Len(CanonicalDays) }

\* A day name outside the canonical seven, as a caller may pass it.
InvalidDay == "Funday"

\* The table without its Sunday-Monday wrap.
ADJACENT_DAYS_no_wrap(day) ==
    CASE day = "Monday"    -> { "Tuesday" }
      [] day = "Tuesday"   -> { "Monday", "Wednesday" }
      [] day = "Wednesday" -> { "Tuesday", "Thursday" }
      [] day = "Thursday"  -> { "Wednesday", "Friday" }
      [] day = "Friday"    -> { "Thursday", "Saturday" }
      [] day = "Saturday"  -> { "Friday", "Sunday" }
      [] day = "Sunday"    -> { "Saturday" }
      [] OTHER             -> {}

\* ADJACENT_DAYS.get(day, []): the lists are only tested for membership
ADJACENT_DAYS(day) ==
    CASE day = "Monday"    -> { "Sunday", "Tuesday" }
      [] day = "Tuesday"   -> { "Monday", "Wednesday" }
      [] day = "Wednesday" -> { "Tuesday", "Thursday" }
      [] day = "Thursday"  -> { "Wednesday", "Friday" }
      [] day = "Friday"    -> { "Thursday", "Saturday" }
      [] day = "Saturday"  -> { "Friday", "Sunday" }
      [] day = "Sunday"    -> { "Saturday", "Monday" }
      [] OTHER             -> {}

\* day_order.get(day, 99)
day_order(day) ==
    CASE day = "Monday"    -> 0
      [] day = "Tuesday"   -> 1
      [] day = "Wednesday" -> 2
      [] day = "Thursday"  -> 3
      [] day = "Friday"    -> 4
      [] day = "Saturday"  -> 5
      [] day = "Sunday"    -> 6
      [] OTHER             -> 99

\* None, for the two Optional[Dict] fields.
NoChoice == [scenario |-> "none"]

(***************************************************************************)
(* Sequence helpers.                                                       *)
(***************************************************************************)
Range(s) == { s[i] : i \in 1..Len(s) }

\* A slice one element too long.
Take_one_more(s, k) == IF Len(s) <= k + 1 THEN s ELSE SubSeq(s, 1, k + 1)

\* s[:k]
Take(s, k) == IF Len(s) <= k THEN s ELSE SubSeq(s, 1, k)

NoRepeats(s) == \A i, j \in 1..Len(s) : i /= j => s[i] /= s[j]

(***************************************************************************)
(* _can_assign_to_day                                                      *)
(***************************************************************************)
\* _can_assign_to_day that refuses a ONE_GAME_ONLY player the first game too.
can_assign_to_day_no_first_game(player, day, assigned_days_of, prefs) ==
    LET player_prefs == prefs[player]
        assigned_days == assigned_days_of[player]
    IN  /\ ~ (PREF_ONE_GAME_ONLY \in player_prefs)
        /\ ~ (/\ PREF_NO_CONSECUTIVE \in player_prefs
              /\ \E i \in 1..Len(assigned_days) : assigned_days[i] \in ADJACENT_DAYS(day))

\* lines 46-79
can_assign_to_day(player, day, assigned_days_of, prefs) ==
    LET player_prefs == prefs[player]
        assigned_days == assigned_days_of[player]
    IN  /\ ~ (PREF_ONE_GAME_ONLY \in player_prefs /\ Len(assigned_days) >= 1)
        /\ ~ (/\ PREF_NO_CONSECUTIVE \in player_prefs
              /\ \E i \in 1..Len(assigned_days) : assigned_days[i] \in ADJACENT_DAYS(day))

(***************************************************************************)
(* optimize_pods, lines 101-109: invert the mapping.                       *)
(***************************************************************************)
HasDay(items, day) == \E i \in 1..Len(items) : items[i].day = day

\* day_to_players.get(day, [])
PlayersOn(items, day) ==
    IF HasDay(items, day)
    THEN items[CHOOSE i \in 1..Len(items) : items[i].day = day].players
    ELSE << >>

\* an index that puts the latest voter of a day first.
AppendVote_prepend(items, player, day) ==
    IF HasDay(items, day)
    THEN [ i \in 1..Len(items) |->
             IF items[i].day = day
             THEN [items[i] EXCEPT !.players = << player >> \o @]
             ELSE items[i] ]
    ELSE Append(items, [day |-> day, players |-> << player >>])

\* one iteration of the inner loop: day_to_players[day].append(player)
AppendVote(items, player, day) ==
    IF HasDay(items, day)
    THEN [ i \in 1..Len(items) |->
             IF items[i].day = day
             THEN [items[i] EXCEPT !.players = Append(@, player)]
             ELSE items[i] ]
    ELSE Append(items, [day |-> day, players |-> << player >>])

RECURSIVE IndexDays(_, _, _, _)
IndexDays(items, player, days, k) ==
    IF k > Len(days) THEN items
    ELSE IndexDays(AppendVote(items, player, days[k]), player, days, k + 1)

RECURSIVE IndexPlayers(_, _, _)
IndexPlayers(items, avail, p) ==
    IF p > Len(avail) THEN items
    ELSE IndexPlayers(IndexDays(items, p, avail[p], 1), avail, p + 1)

invert_mapping(avail) == IndexPlayers(<< >>, avail, 1)

(***************************************************************************)
(* _count_unique_players                                                   *)
(***************************************************************************)
count_unique_players(day, items, avail) ==
    Len(SelectSeq(PlayersOn(items, day), LAMBDA p : Len(avail[p]) = 1))

(***************************************************************************)
(* _detect_critical_flexible_players                                       *)
(***************************************************************************)
\* keys of a dict built by assigning the elements of s in order
DictKeys(s) == SelectSeq([ i \in 1..Len(s) |-> [k |-> s[i], first |-> \A j \in 1..(i - 1) : s[j] /= s[i]] ],
                         LAMBDA e : e.first)

\* remaining_count: players on the day WITHOUT this player
remaining_count(items, day, player) ==
    Len(SelectSeq(PlayersOn(items, day), LAMBDA q : q /= player))

\* can_reserve without the veto: every reservation is allowed.
can_reserve_always(items, days_not_needing, reserved_from_day) ==
    \A i \in 1..Len(days_not_needing) : HasDay(items, days_not_needing[i])

\* can_reserve that forgets the players already reserved away from the day.
can_reserve_checks_total(items, days_not_needing, reserved_from_day) ==
    \A i \in 1..Len(days_not_needing) :
        LET other_day == days_not_needing[i]
            total_on_day == Len(PlayersOn(items, other_day))
        IN  ~ ((total_on_day - 1) \div PodSize < total_on_day \div PodSize)

\* lines 176-190: would reserving reduce the complete pods of another day?
can_reserve(items, days_not_needing, reserved_from_day) ==
    \A i \in 1..Len(days_not_needing) :
        LET other_day == days_not_needing[i]
            total_on_day == Len(PlayersOn(items, other_day))
            effective_count == total_on_day - reserved_from_day[other_day]
            current_pods == effective_count \div PodSize
            new_pods == (effective_count - 1) \div PodSize
        IN  ~ (new_pods < current_pods)

\* critical_step that never counts the reservation in reserved_from_day.
critical_step_forgets_reserved(acc, items, avail, player) ==
    LET keys == DictKeys(avail[player])
        player_days == [ i \in 1..Len(keys) |-> keys[i].k ]
        days_needing_player ==
            SelectSeq(player_days, LAMBDA d : remaining_count(items, d, player) < PodSize)
        days_not_needing_player ==
            SelectSeq(player_days, LAMBDA d : remaining_count(items, d, player) >= PodSize)
    IN  IF /\ Len(days_needing_player) = 1
           /\ Len(days_not_needing_player) >= 1
           /\ can_reserve(items, days_not_needing_player, acc.rfd)
        THEN [ crit |-> [ q \in DOMAIN acc.crit \cup {player} |->
                            IF q = player THEN days_needing_player[1] ELSE acc.crit[q] ],
               rfd  |-> acc.rfd ]
        ELSE acc

\* one iteration of the loop over flexible_players (lines 160-196);
\* acc = [crit |-> critical_assignments, rfd |-> reserved_from_day]
critical_step(acc, items, avail, player) ==
    LET keys == DictKeys(avail[player])
        player_days == [ i \in 1..Len(keys) |-> keys[i].k ]
        days_needing_player ==
            SelectSeq(player_days, LAMBDA d : remaining_count(items, d, player) < PodSize)
        days_not_needing_player ==
            SelectSeq(player_days, LAMBDA d : remaining_count(items, d, player) >= PodSize)
    IN  IF /\ Len(days_needing_player) = 1
           /\ Len(days_not_needing_player) >= 1
           /\ can_reserve(items, days_not_needing_player, acc.rfd)
        THEN [ crit |-> [ q \in DOMAIN acc.crit \cup {player} |->
                            IF q = player THEN days_needing_player[1] ELSE acc.crit[q] ],
               rfd  |-> [ d \in DOMAIN acc.rfd |->
                            IF d \in Range(days_not_needing_player)
                            THEN acc.rfd[d] + 1 ELSE acc.rfd[d] ] ]
        ELSE acc

RECURSIVE critical_loop(_, _, _, _)
critical_loop(acc, items, avail, p) ==
    IF p > Len(avail) THEN acc
    ELSE critical_loop(
             IF Len(avail[p]) >= 2 THEN critical_step(acc, items, avail, p) ELSE acc,
             items, avail, p + 1)

EmptyDict == [ x \in {} |-> 0 ]

detect_critical_flexible_players(items, avail) ==
    critical_loop([ crit |-> EmptyDict,
                    rfd  |-> [ d \in { items[i].day : i \in 1..Len(items) } |-> 0 ] ],
                  items, avail, 1).crit

(***************************************************************************)
(* day_priority and sorted(..., reverse=True), lines 254-270                *)
(***************************************************************************)
\* day_priority whose tiebreaker prefers the later weekday.
day_priority_later_first(item, items, avail) ==
    LET player_count == Len(item.players)
        unique_count == count_unique_players(item.day, items, avail)
        is_complete == (player_count % PodSize = 0 /\ player_count > 0)
    IN  << IF is_complete THEN 1 ELSE 0, unique_count, player_count, day_order(item.day) >>

day_priority(item, items, avail) ==
    LET player_count == Len(item.players)
        unique_count == count_unique_players(item.day, items, avail)
        is_complete == (player_count % PodSize = 0 /\ player_count > 0)
        earlier_in_week == 0 - day_order(item.day)
    IN  << IF is_complete THEN 1 ELSE 0, unique_count, player_count, earlier_in_week >>

\* tuple comparison a < b
KeyLess(a, b) ==
    \E i \in 1..Len(a) : a[i] < b[i] /\ \A j \in 1..(i - 1) : a[j] = b[j]

\* insert keeping descending keys; equal keys keep their original order
\* (list.sort(reverse=True) is stable)
InsertDescending(sorted, item, items, avail) ==
    LET key == day_priority(item, items, avail)
        before == SelectSeq(sorted, LAMBDA e : ~ KeyLess(day_priority(e, items, avail), key))
        after == SelectSeq(sorted, LAMBDA e : KeyLess(day_priority(e, items, avail), key))
    IN  before \o << item >> \o after

RECURSIVE sort_loop(_, _, _, _)
sort_loop(sorted, items, avail, i) ==
    IF i > Len(items) THEN sorted
    ELSE sort_loop(InsertDescending(sorted, items[i], items, avail), items, avail, i + 1)

sort_days(items, avail) == sort_loop(<< >>, items, avail, 1)

(***************************************************************************)
(* _find_best_assignment, STEP 3: the greedy pod loop                      *)
(***************************************************************************)
\* critical_by_day.get(day, [])
critical_for_day(crit, day) == { p \in DOMAIN crit : crit[p] = day }

\* is_eligible that offers an assigned player every further day, whatever
\* the player's preferences.
is_eligible_any_second_day(p, day, assigned, reserved, crit, assigned_days_of, prefs) ==
    /\ day \notin Range(assigned_days_of[p])
    /\ ~ (p \in reserved /\ p \notin critical_for_day(crit, day))

\* is_eligible that offers an assigned player a further day unless
\* ONE_GAME_ONLY forbids it, and never looks at NO_CONSECUTIVE.
is_eligible_one_game_check(p, day, assigned, reserved, crit, assigned_days_of, prefs) ==
    /\ day \notin Range(assigned_days_of[p])
    /\ ~ (p \in reserved /\ p \notin critical_for_day(crit, day))
    /\ ~ (PREF_ONE_GAME_ONLY \in prefs[p] /\ Len(assigned_days_of[p]) >= 1)

\* is_eligible that offers an assigned player a further day whenever the
\* player's preferences allow it.
is_eligible_plays_again(p, day, assigned, reserved, crit, assigned_days_of, prefs) ==
    /\ day \notin Range(assigned_days_of[p])
    /\ ~ (p \in reserved /\ p \notin critical_for_day(crit, day))
    /\ can_assign_to_day(p, day, assigned_days_of, prefs)

\* is_eligible that lets an assigned player without preferences play a
\* second day.
is_eligible_second_pod(p, day, assigned, reserved, crit, assigned_days_of, prefs) ==
    /\ p \in assigned => prefs[p] = {} /\ Len(assigned_days_of[p]) < 2
    /\ day \notin Range(assigned_days_of[p])
    /\ ~ (p \in reserved /\ p \notin critical_for_day(crit, day))
    /\ can_assign_to_day(p, day, assigned_days_of, prefs)

\* is_eligible that never looks at the reservations.
is_eligible_ignores_reservation(p, day, assigned, reserved, crit, assigned_days_of, prefs) ==
    /\ p \notin assigned
    /\ can_assign_to_day(p, day, assigned_days_of, prefs)

\* is_eligible, lines 281-291
is_eligible(p, day, assigned, reserved, crit, assigned_days_of, prefs) ==
    /\ p \notin assigned
    /\ ~ (p \in reserved /\ p \notin critical_for_day(crit, day))
    /\ can_assign_to_day(p, day, assigned_days_of, prefs)

\* unassigned_available of the current day, lines 293 and 310
unassigned_available ==
    LET item == sorted_days[day_index]
    IN  SelectSeq(item.players,
                  LAMBDA p : is_eligible(p, item.day, assigned_players, reserved_players,
                                         critical_assignments, player_assigned_days,
                                         preferences))

\* a release scan that keeps every reservation.
players_to_release_none(reserved, crit, items, assigned) == {}

\* players_to_release, lines 314-325
players_to_release(reserved, crit, items, assigned) ==
    { r \in reserved :
        /\ r \in DOMAIN crit
        /\ crit[r] /= ""
        /\ Len(SelectSeq(PlayersOn(items, crit[r]), LAMBDA p : p \notin assigned)) < PodSize }

(***************************************************************************)
(* _find_best_assignment, STEP 4: the double-play pass, lines 330-365      *)
(***************************************************************************)
\* flexible_candidates asking for more than two days of availability.
flexible_candidates_three_days(item, avail, assigned, assigned_days_of, prefs) ==
    SelectSeq(item.players,
              LAMBDA p : /\ p \in assigned
                         /\ Len(avail[p]) > 2
                         /\ PREF_ONE_GAME_ONLY \notin prefs[p]
                         /\ can_assign_to_day(p, item.day, assigned_days_of, prefs))

flexible_candidates(item, avail, assigned, assigned_days_of, prefs) ==
    SelectSeq(item.players,
              LAMBDA p : /\ p \in assigned
                         /\ Len(avail[p]) > 1
                         /\ PREF_ONE_GAME_ONLY \notin prefs[p]
                         /\ can_assign_to_day(p, item.day, assigned_days_of, prefs))

waiting_on(item, assigned) == SelectSeq(item.players, LAMBDA p : p \notin assigned)

\* the day qualifies: 3 unassigned players and some flexible candidate
qualifies(item, avail, assigned, assigned_days_of, prefs) ==
    /\ Len(waiting_on(item, assigned)) = 3
    /\ Len(flexible_candidates(item, avail, assigned, assigned_days_of, prefs)) > 0

RECURSIVE double_play_loop(_, _, _, _, _, _)
double_play_loop(days, i, avail, assigned, assigned_days_of, prefs) ==
    IF i > Len(days) THEN NoChoice
    ELSE IF qualifies(days[i], avail, assigned, assigned_days_of, prefs)
         THEN [ scenario |-> "double_play_needed",
                day |-> days[i].day,
                waiting_players |-> waiting_on(days[i], assigned),
                flexible_candidates |->
                    flexible_candidates(days[i], avail, assigned, assigned_days_of, prefs) ]
         ELSE double_play_loop(days, i + 1, avail, assigned, assigned_days_of, prefs)

(***************************************************************************)
(* _detect_choice_scenario                                                 *)
(***************************************************************************)
\* combinations(days, 2) in itertools order
Combinations2(days) ==
    LET n == Len(days)
        RECURSIVE build(_, _)
        build(i, j) ==
            IF i >= n THEN << >>
            ELSE IF j > n THEN build(i + 1, i + 2)
                 ELSE << << days[i], days[j] >> >> \o build(i, j + 1)
    IN  build(1, 2)

\* critical_pair accepting days with 4 or more players.
critical_pair_at_least(items, player, pair) ==
    /\ HasDay(items, pair[1]) /\ HasDay(items, pair[2])
    /\ Len(PlayersOn(items, pair[1])) >= PodSize
    /\ Len(PlayersOn(items, pair[2])) >= PodSize
    /\ player \in Range(PlayersOn(items, pair[1]))
    /\ player \in Range(PlayersOn(items, pair[2]))

critical_pair(items, player, pair) ==
    /\ HasDay(items, pair[1]) /\ HasDay(items, pair[2])
    /\ Len(PlayersOn(items, pair[1])) = PodSize
    /\ Len(PlayersOn(items, pair[2])) = PodSize
    /\ player \in Range(PlayersOn(items, pair[1]))
    /\ player \in Range(PlayersOn(items, pair[2]))

RECURSIVE choice_loop(_, _, _)
choice_loop(avail, items, p) ==
    IF p > Len(avail) THEN NoChoice
    ELSE LET hits == SelectSeq(Combinations2(avail[p]),
                               LAMBDA pair : critical_pair(items, p, pair))
         IN  IF Len(avail[p]) > 1 /\ Len(hits) > 0
             THEN [ player |-> p,
                    scenario |-> "critical_for_both",
                    day1 |-> hits[1][1],
                    day2 |-> hits[1][2],
                    pod1 |-> PlayersOn(items, hits[1][1]),
                    pod2 |-> PlayersOn(items, hits[1][2]) ]
             ELSE choice_loop(avail, items, p + 1)

detect_choice_scenario(avail, items) == choice_loop(avail, items, 1)

(***************************************************************************)
(* format_pod_results: the message as its list of lines.  A line keeps     *)
(* what it shows: its kind, the day, the pod number, the players listed.   *)
(***************************************************************************)
Line(kind, day, index, players, members) ==
    [ kind |-> kind, day |-> day, index |-> index, players |-> players, members |-> members ]

TextLine(kind) == Line(kind, "", 0, << >>, {})

\* the day names of the model in the order sorted() gives strings
AlphabeticalDays ==
    << "Friday", "Funday", "Monday", "Saturday", "Sunday", "Thursday", "Tuesday", "Wednesday" >>

\* sorted(pods_by_day.keys())
sorted_pod_days(ps) ==
    SelectSeq(AlphabeticalDays, LAMBDA d : \E i \in 1..Len(ps) : ps[i].day = d)

\* the loop over sorted(pods_by_day.keys()): header, numbered pods, blank
RECURSIVE day_sections(_, _)
day_sections(days, ps) ==
    IF days = << >> THEN << >>
    ELSE LET day == Head(days)
             of_day == SelectSeq(ps, LAMBDA pod : pod.day = day)
         IN  << Line("day", day, 0, << >>, {}) >>
             \o [ i \in 1..Len(of_day) |-> Line("pod", day, i, of_day[i].players, {}) ]
             \o << TextLine("blank") >>
             \o day_sections(Tail(days), ps)

\* the optional line of the players without games
without_games_line(r) ==
    IF r.players_without_games /= {}
    THEN << Line("without_games", "", 0, << >>, r.players_without_games) >>
    ELSE << >>

format_pod_results(r) ==
    LET c == r.choice_required
    IN  IF c.scenario = "double_play_needed"
        THEN << TextLine("title") >>
             \o (IF r.pods /= << >> THEN day_sections(sorted_pod_days(r.pods), r.pods) ELSE << >>)
             \o << TextLine("rule"),
                   Line("need_one_more", c.day, 0, c.waiting_players, Range(c.flexible_candidates)) >>
        ELSE IF c.scenario = "critical_for_both"
        THEN << TextLine("title"),
                TextLine("choice_required"),
                Line("needed_for_both", "", 0, << >>, { c.player }),
                TextLine("potential_pods"),
                Line("potential", c.day1, 0, c.pod1, {}),
                Line("potential", c.day2, 0, c.pod2, {}),
                TextLine("please_react") >>
        ELSE IF r.pods = << >>
        THEN << TextLine("title"), TextLine("no_pods") >> \o without_games_line(r)
        ELSE << TextLine("title") >>
             \o day_sections(sorted_pod_days(r.pods), r.pods)
             \o << Line("total_with_games", "", Cardinality(r.players_with_games), << >>, {}) >>
             \o without_games_line(r)

(***************************************************************************)
(* optimize_pods as a function of its arguments: the result of the call,   *)
(* computed by the same operators as the steps below.  It gives the result *)
(* of a second call, on other arguments, to compare a run with.            *)
(***************************************************************************)
\* the for loop over sorted_days with its while loop, lines 273-328;
\* st = [pods, assigned, assigned_days_of, reserved], i the index of the day
RECURSIVE pod_loop(_, _, _, _, _, _)
pod_loop(st, days, i, crit, items, prefs) ==
    IF i > Len(days) THEN st
    ELSE LET day == days[i].day
             eligible == SelectSeq(days[i].players,
                            LAMBDA p : is_eligible(p, day, st.assigned, st.reserved, crit,
                                                   st.assigned_days_of, prefs))
             pod_players == Take(eligible, PodSize)
         IN  IF Len(eligible) >= PodSize
             THEN pod_loop([ pods |-> Append(st.pods, [day |-> day, players |-> pod_players]),
                             assigned |-> st.assigned \cup Range(pod_players),
                             assigned_days_of |->
                                 [ p \in DOMAIN st.assigned_days_of |->
                                     IF p \in Range(pod_players)
                                     THEN Append(st.assigned_days_of[p], day)
                                     ELSE st.assigned_days_of[p] ],
                             reserved |-> st.reserved \ Range(pod_players) ],
                           days, i, crit, items, prefs)
             ELSE pod_loop([ st EXCEPT !.reserved =
                                 @ \ players_to_release(@, crit, items, st.assigned) ],
                           days, i + 1, crit, items, prefs)

\* _find_best_assignment, lines 201-379
find_best_assignment(items, avail, prefs) ==
    LET crit == detect_critical_flexible_players(items, avail)
        days == sort_days(items, avail)
        st == pod_loop([ pods |-> << >>, assigned |-> {},
                         assigned_days_of |-> [ p \in 1..Len(avail) |-> << >> ],
                         reserved |-> DOMAIN crit ],
                       days, 1, crit, items, prefs)
    IN  [ pods |-> st.pods,
          players_with_games |-> st.assigned,
          players_without_games |-> (1..Len(avail)) \ st.assigned,
          choice_required |->
              double_play_loop(days, 1, avail, st.assigned, st.assigned_days_of, prefs) ]

\* optimize_pods, lines 82-120
optimize_pods(avail, prefs) ==
    LET items == invert_mapping(avail)
        best == find_best_assignment(items, avail, prefs)
        choice_scenario == detect_choice_scenario(avail, items)
    IN  IF choice_scenario /= NoChoice
        THEN [ best EXCEPT !.choice_required = choice_scenario ]
        ELSE best

(***************************************************************************)
(* Inputs of the call.                                                     *)
(***************************************************************************)
\* the users who may report the result of the pod
Reporters == 1..MaxReporters

\* The two days one input draws its day lists from, in the order a player
\* who votes for both lists them: a pair that is not adjacent, the
\* Sunday-Monday wrap (listed against the week's order), and a pair with a
\* day outside the canonical seven.
DayPairs ==
    { << "Monday", "Wednesday" >>, << "Sunday", "Monday" >>, << "Monday", InvalidDay >> }

CanonicalPairs == { pair \in DayPairs : Range(pair) \subseteq CanonicalDaySet }

DayLists(pair) ==
    { << pair[1] >>, << pair[2] >>, << pair[1], pair[2] >> }

PrefSets == SUBSET { PREF_ONE_GAME_ONLY, PREF_NO_CONSECUTIVE }

\* the pod is scheduled, has no result, and nobody is reporting
NoReports ==
    /\ game_results = << >>
    /\ pod_status = "scheduled"
    /\ reporter_pc = [ u \in Reporters |-> "idle" ]
    /\ reporter_winner = [ u \in Reporters |-> 0 ]

\* preferences.get(p, set()) for every player: nobody has a preference
NoPreferences(n) == [ p \in 1..n |-> {} ]

WithPreference(n, f, ps) == [ p \in 1..n |-> IF p = f THEN ps ELSE {} ]

\* the state at the entry of optimize_pods, with the locals still empty
Start(avail, prefs) ==
    /\ availability = avail
    /\ preferences = prefs
    /\ pc = "index"
    /\ day_to_players = << >>
    /\ critical_assignments = EmptyDict
    /\ reserved_players = {}
    /\ sorted_days = << >>
    /\ day_index = 1
    /\ pods = << >>
    /\ assigned_players = {}
    /\ player_assigned_days = [ p \in 1..Len(avail) |-> << >> ]
    /\ double_play_opportunity = NoChoice
    /\ result = [ pods |-> << >>, players_with_games |-> {},
                  players_without_games |-> {}, choice_required |-> NoChoice ]
    /\ released_at = EmptyDict
    /\ message = << >>
    /\ NoReports

\* Up to MaxPlayers players without preferences, each voting for Sunday,
\* for Monday or for both.
InitPlain ==
    \E n \in 0..MaxPlayers :
        \E a \in [ 1..n -> DayLists(<< "Sunday", "Monday" >>) ] :
            Start(a, NoPreferences(n))

\* A few players, some of whom may have voted for no day at all or for a
\* day outside the canonical seven.
InitIrregular ==
    \E pair \in DayPairs, n \in 0..(MaxPlayers - 3) :
        \E a \in [ 1..n -> DayLists(pair) \cup { << >> } ] :
            Start(a, NoPreferences(n))

\* One flexible player (f) has preferences; MaxPlayers - 1 players, which
\* leaves room for a pod and three waiting players.
InitPreferences ==
    \E pair \in CanonicalPairs, f \in 1..(MaxPlayers - 1), ps \in PrefSets \ { {} } :
        \E a \in [ 1..(MaxPlayers - 1) -> DayLists(pair) ] :
            /\ Len(a[f]) > 1
            /\ Start(a, WithPreference(MaxPlayers - 1, f, ps))

\* the days a player of InitEightFlexible lists after Monday
SecondaryDays == { "Tuesday", "Wednesday", "Thursday" }

\* Two pods' worth of players who all list Monday and then one of three
\* other days (the first of them Tuesday), alone or with one more player
\* who lists Thursday only.
InitEightFlexible ==
    \E a \in [ 1..(2 * PodSize) -> { << "Monday", d >> : d \in SecondaryDays } ],
       extra \in { << >>, << << "Thursday" >> >> } :
        /\ a[1] = << "Monday", "Tuesday" >>
        /\ Start(a \o extra, NoPreferences(Len(a \o extra)))

\* the day lists of InitThreeDays: Wednesday is shared by the players who
\* also list Monday and those who also list Friday
ThreeDayLists ==
    { << "Monday" >>, << "Monday", "Wednesday" >>, << "Wednesday", "Friday" >>, << "Friday" >> }

\* A pod's worth of players and two more over three days, so that a player
\* reserved to one day can lose the reservation before another of their
\* days is processed.
InitThreeDays ==
    \E a \in [ 1..(PodSize + 2) -> ThreeDayLists ] :
        Start(a, NoPreferences(PodSize + 2))

\* Exactly two flexible players (f and g), both with preferences, among a
\* pod's worth of players and three more, on Sunday and Monday; s gives the
\* day of each of the others.
InitTwoPreferences ==
    \E f \in 1..(2 * PodSize - 1), g \in 1..(2 * PodSize - 1) :
        \E pf \in PrefSets \ { {} }, pg \in PrefSets \ { {} } :
            \E s \in [ 1..(2 * PodSize - 1) -> { << "Sunday" >>, << "Monday" >> } ] :
                /\ f < g
                /\ s[f] = << "Sunday" >>
                /\ s[g] = << "Sunday" >>
                /\ Start([ p \in 1..(2 * PodSize - 1) |->
                             IF p \in { f, g } THEN << "Sunday", "Monday" >> ELSE s[p] ],
                         [ p \in 1..(2 * PodSize - 1) |->
                             IF p = f THEN pf ELSE IF p = g THEN pg ELSE {} ])

\* the day lists of InitEveryoneFlexible
TwoOfThreeDays ==
    { << "Monday", "Wednesday" >>, << "Wednesday", "Friday" >>, << "Monday", "Friday" >> }

\* A pod's worth of players and two more, each listing two of three days,
\* so that one day can get a pod while a player is needed on the other two.
InitEveryoneFlexible ==
    \E a \in [ 1..(PodSize + 2) -> TwoOfThreeDays ] :
        Start(a, NoPreferences(PodSize + 2))

Init ==
    \/ InitPlain
    \/ InitIrregular
    \/ InitPreferences
    \/ InitEightFlexible
    \/ InitThreeDays
    \/ InitTwoPreferences
    \/ InitEveryoneFlexible

(***************************************************************************)
(* The steps of optimize_pods.                                             *)
(***************************************************************************)
\* all_players collected from the index instead of the availability keys.
all_players_from_index ==
    UNION { Range(day_to_players[i].players) : i \in 1..Len(day_to_players) }

\* set(availability.keys()), line 103
all_players == 1..Len(availability)

\* An index build that pops the days off the caller's lists.
BuildIndex_drains_lists ==
    /\ pc = "index"
    /\ day_to_players' = invert_mapping(availability)
    /\ availability' = [ p \in 1..Len(availability) |-> << >> ]
    /\ pc' = "critical"
    /\ UNCHANGED << preferences, critical_assignments, reserved_players,
                    sorted_days, day_index, pods, assigned_players,
                    player_assigned_days, double_play_opportunity, result >>
    /\ UNCHANGED << released_at, message, report_vars >>

\* optimize_pods lines 101-109
BuildIndex ==
    /\ pc = "index"
    /\ day_to_players' = invert_mapping(availability)
    /\ pc' = "critical"
    /\ UNCHANGED << availability, preferences, critical_assignments, reserved_players,
                    sorted_days, day_index, pods, assigned_players,
                    player_assigned_days, double_play_opportunity, result >>
    /\ UNCHANGED << released_at, message, report_vars >>

\* _find_best_assignment lines 235-246
DetectCritical ==
    /\ pc = "critical"
    /\ critical_assignments' = detect_critical_flexible_players(day_to_players, availability)
    /\ reserved_players' = DOMAIN critical_assignments'
    /\ pc' = "sort"
    /\ UNCHANGED << availability, preferences, day_to_players, sorted_days, day_index,
                    pods, assigned_players, player_assigned_days,
                    double_play_opportunity, result >>
    /\ UNCHANGED << released_at, message, report_vars >>

\* _find_best_assignment lines 248-273
SortDays ==
    /\ pc = "sort"
    /\ sorted_days' = sort_days(day_to_players, availability)
    /\ day_index' = 1
    /\ pc' = IF Len(sorted_days') = 0 THEN "double" ELSE "pods"
    /\ UNCHANGED << availability, preferences, day_to_players, critical_assignments,
                    reserved_players, pods, assigned_players, player_assigned_days,
                    double_play_opportunity, result >>
    /\ UNCHANGED << released_at, message, report_vars >>

\* A while loop that already forms a pod from three players.
FormPod_from_three ==
    /\ pc = "pods"
    /\ Len(unassigned_available) >= PodSize - 1
    /\ LET day == sorted_days[day_index].day
           pod_players == Take(unassigned_available, PodSize)
       IN  /\ pods' = Append(pods, [day |-> day, players |-> pod_players])
           /\ assigned_players' = assigned_players \cup Range(pod_players)
           /\ player_assigned_days' =
                 [ p \in DOMAIN player_assigned_days |->
                     IF p \in Range(pod_players)
                     THEN Append(player_assigned_days[p], day)
                     ELSE player_assigned_days[p] ]
           /\ reserved_players' = reserved_players \ Range(pod_players)
    /\ UNCHANGED << availability, preferences, pc, day_to_players, critical_assignments,
                    sorted_days, day_index, double_play_opportunity, result >>
    /\ UNCHANGED << released_at, message, report_vars >>

\* An `if` in place of the `while`: one pod per day at most.
FormPod_single_pass ==
    /\ pc = "pods"
    /\ Len(unassigned_available) >= PodSize
    /\ LET day == sorted_days[day_index].day
           pod_players == Take(unassigned_available, PodSize)
       IN  /\ pods' = Append(pods, [day |-> day, players |-> pod_players])
           /\ assigned_players' = assigned_players \cup Range(pod_players)
           /\ player_assigned_days' =
                 [ p \in DOMAIN player_assigned_days |->
                     IF p \in Range(pod_players)
                     THEN Append(player_assigned_days[p], day)
                     ELSE player_assigned_days[p] ]
           /\ reserved_players' = reserved_players \ Range(pod_players)
    /\ day_index' = day_index + 1
    /\ pc' = IF day_index = Len(sorted_days) THEN "double" ELSE "pods"
    /\ UNCHANGED << availability, preferences, day_to_players, critical_assignments,
                    sorted_days, double_play_opportunity, result >>
    /\ UNCHANGED << released_at, message, report_vars >>

\* An iteration that forgets to mark the last player of the pod assigned.
FormPod_assigns_three ==
    /\ pc = "pods"
    /\ Len(unassigned_available) >= PodSize
    /\ LET day == sorted_days[day_index].day
           pod_players == Take(unassigned_available, PodSize)
           marked == Range(Take(pod_players, PodSize - 1))
       IN  /\ pods' = Append(pods, [day |-> day, players |-> pod_players])
           /\ assigned_players' = assigned_players \cup marked
           /\ player_assigned_days' =
                 [ p \in DOMAIN player_assigned_days |->
                     IF p \in marked
                     THEN Append(player_assigned_days[p], day)
                     ELSE player_assigned_days[p] ]
           /\ reserved_players' = reserved_players \ marked
    /\ UNCHANGED << availability, preferences, pc, day_to_players, critical_assignments,
                    sorted_days, day_index, double_play_opportunity, result >>
    /\ UNCHANGED << released_at, message, report_vars >>

\* one iteration of the while loop, lines 296-310
FormPod ==
    /\ pc = "pods"
    /\ Len(unassigned_available) >= PodSize
    /\ LET day == sorted_days[day_index].day
           pod_players == Take(unassigned_available, PodSize)
       IN  /\ pods' = Append(pods, [day |-> day, players |-> pod_players])
           /\ assigned_players' = assigned_players \cup Range(pod_players)
           /\ player_assigned_days' =
                 [ p \in DOMAIN player_assigned_days |->
                     IF p \in Range(pod_players)
                     THEN Append(player_assigned_days[p], day)
                     ELSE player_assigned_days[p] ]
           /\ reserved_players' = reserved_players \ Range(pod_players)
    /\ UNCHANGED << availability, preferences, pc, day_to_players, critical_assignments,
                    sorted_days, day_index, double_play_opportunity, result >>
    /\ UNCHANGED << released_at, message, report_vars >>

\* the while loop ends; lines 312-328 release stale reservations; next day
EndDay ==
    /\ pc = "pods"
    /\ Len(unassigned_available) < PodSize
    /\ reserved_players' =
          reserved_players \ players_to_release(reserved_players, critical_assignments,
                                                day_to_players, assigned_players)
    /\ released_at' =
          [ p \in DOMAIN released_at
                   \cup players_to_release(reserved_players, critical_assignments,
                                           day_to_players, assigned_players) |->
              IF p \in DOMAIN released_at THEN released_at[p] ELSE day_index ]
    /\ day_index' = day_index + 1
    /\ pc' = IF day_index = Len(sorted_days) THEN "double" ELSE "pods"
    /\ UNCHANGED << availability, preferences, day_to_players, critical_assignments,
                    sorted_days, pods, assigned_players, player_assigned_days,
                    double_play_opportunity, result >>
    /\ UNCHANGED << message, report_vars >>

\* A double-play pass that seats the first candidate with the waiting
\* players instead of asking.
DoublePlayPass_auto_assign ==
    /\ pc = "double"
    /\ LET found == double_play_loop(sorted_days, 1, availability, assigned_players,
                                     player_assigned_days, preferences)
           seated == IF found = NoChoice THEN << >>
                     ELSE Append(found.waiting_players, found.flexible_candidates[1])
       IN  /\ double_play_opportunity' = NoChoice
           /\ pods' = IF found = NoChoice THEN pods
                      ELSE Append(pods, [day |-> found.day, players |-> seated])
           /\ assigned_players' = assigned_players \cup Range(seated)
           /\ player_assigned_days' =
                 [ p \in DOMAIN player_assigned_days |->
                     IF p \in Range(seated)
                     THEN Append(player_assigned_days[p], found.day)
                     ELSE player_assigned_days[p] ]
    /\ pc' = "assemble"
    /\ UNCHANGED << availability, preferences, day_to_players, critical_assignments,
                    reserved_players, sorted_days, day_index, result >>
    /\ UNCHANGED << released_at, message, report_vars >>

\* lines 330-365
DoublePlayPass ==
    /\ pc = "double"
    /\ double_play_opportunity' =
          double_play_loop(sorted_days, 1, availability, assigned_players,
                           player_assigned_days, preferences)
    /\ pc' = "assemble"
    /\ UNCHANGED << availability, preferences, day_to_players, critical_assignments,
                    reserved_players, sorted_days, day_index, pods, assigned_players,
                    player_assigned_days, result >>
    /\ UNCHANGED << released_at, message, report_vars >>

\* lines 367-379
AssembleResult ==
    /\ pc = "assemble"
    /\ result' = [ pods |-> pods,
                   players_with_games |-> assigned_players,
                   players_without_games |-> all_players \ assigned_players,
                   choice_required |-> double_play_opportunity ]
    /\ pc' = "choice"
    /\ UNCHANGED << availability, preferences, day_to_players, critical_assignments,
                    reserved_players, sorted_days, day_index, pods, assigned_players,
                    player_assigned_days, double_play_opportunity >>
    /\ UNCHANGED << released_at, message, report_vars >>

\* A detection that keeps a scenario the result already carries.
DetectChoice_keeps_first ==
    /\ pc = "choice"
    /\ LET choice_scenario == detect_choice_scenario(availability, day_to_players)
       IN  result' = IF choice_scenario /= NoChoice /\ result.choice_required = NoChoice
                     THEN [result EXCEPT !.choice_required = choice_scenario]
                     ELSE result
    /\ pc' = "done"
    /\ UNCHANGED << availability, preferences, day_to_players, critical_assignments,
                    reserved_players, sorted_days, day_index, pods, assigned_players,
                    player_assigned_days, double_play_opportunity >>
    /\ UNCHANGED << released_at, message, report_vars >>

\* optimize_pods lines 114-120
DetectChoice ==
    /\ pc = "choice"
    /\ LET choice_scenario == detect_choice_scenario(availability, day_to_players)
       IN  result' = IF choice_scenario /= NoChoice
                     THEN [result EXCEPT !.choice_required = choice_scenario]
                     ELSE result
    /\ pc' = "done"
    /\ UNCHANGED << availability, preferences, day_to_players, critical_assignments,
                    reserved_players, sorted_days, day_index, pods, assigned_players,
                    player_assigned_days, double_play_opportunity >>
    /\ UNCHANGED << released_at, message, report_vars >>

\* bot.py line 239: the result is formatted for the channel
FormatResults ==
    /\ pc = "done"
    /\ message' = format_pod_results(result)
    /\ pc' = "formatted"
    /\ UNCHANGED << availability, preferences, day_to_players, critical_assignments,
                    reserved_players, sorted_days, day_index, pods, assigned_players,
                    player_assigned_days, double_play_opportunity, result >>
    /\ UNCHANGED << released_at, report_vars >>

Next ==
    \/ BuildIndex
    \/ DetectCritical
    \/ SortDays
    \/ FormPod
    \/ EndDay
    \/ DoublePlayPass
    \/ AssembleResult
    \/ DetectChoice
    \/ FormatResults

Spec == Init /\ [][Next]_vars

\* the inputs on which termination is checked: the two families in which
\* reservations hold players back and release them
FairInit == InitThreeDays \/ InitEightFlexible

\* optimize_pods is one sequential call: once it is in the pod loop, the
\* step of the loop that can be taken is taken
FairSpec ==
    /\ FairInit
    /\ [][Next]_vars
    /\ WF_vars(FormPod)
    /\ WF_vars(EndDay)
    /\ WF_vars(DoublePlayPass)

(***************************************************************************)
(* Reports of the result of one pod.  The bot runs on one asyncio event    *)
(* loop, so a handler runs alone from one await to the next; none of the   *)
(* database calls awaits.                                                  *)
(***************************************************************************)
\* pod.player1_id .. pod.player4_id, the options of the winner dropdown
PodPlayers == 1..PodSize

\* positions from which a user can press "Game Completed" (again)
CanStart == { "idle", "rejected", "cancelled", "failed" }

\* the variables of the optimizer, which no report touches
optimizer_vars ==
    << availability, preferences, pc, day_to_players, critical_assignments,
       reserved_players, sorted_days, day_index, pods, assigned_players,
       player_assigned_days, double_play_opportunity, result, released_at, message >>

\* GameResult.get_or_none(GameResult.pod == pod)
existing_result(rows) == IF rows = << >> THEN NoChoice ELSE rows[1]

\* record_game_result on a table whose pod column is not unique.
record_game_result_no_unique(rows, status, winner_id, reported_by_id) ==
    [ raised |-> FALSE,
      rows   |-> Append(rows, [ winner_id |-> winner_id, reported_by_id |-> reported_by_id ]),
      status |-> "completed" ]

\* record_game_result: GameResult.create raises IntegrityError when the pod
\* already has a row (pod is unique=True); otherwise the row is inserted and
\* the pod saved as completed
record_game_result(rows, status, winner_id, reported_by_id) ==
    IF rows /= << >>
    THEN [ raised |-> TRUE, rows |-> rows, status |-> status ]
    ELSE [ raised |-> FALSE,
           rows   |-> Append(rows, [ winner_id |-> winner_id, reported_by_id |-> reported_by_id ]),
           status |-> "completed" ]

\* GamesCog.on_interaction for the button game_complete_<pod id>
PressGameCompleted(u) ==
    /\ reporter_pc[u] \in CanStart
    /\ reporter_pc' = [ reporter_pc EXCEPT ![u] =
                          IF existing_result(game_results) /= NoChoice
                          THEN "rejected" ELSE "modal" ]
    /\ UNCHANGED << game_results, pod_status, reporter_winner >>
    /\ UNCHANGED optimizer_vars

\* WinnerSelectionModal.on_submit
SubmitWinner(u, w) ==
    /\ reporter_pc[u] = "modal"
    /\ reporter_winner' = [ reporter_winner EXCEPT ![u] = w ]
    /\ reporter_pc' = [ reporter_pc EXCEPT ![u] = "confirm" ]
    /\ UNCHANGED << game_results, pod_status >>
    /\ UNCHANGED optimizer_vars

\* ConfirmWinnerView.confirm
ConfirmWinner(u) ==
    /\ reporter_pc[u] = "confirm"
    /\ LET saved == record_game_result(game_results, pod_status, reporter_winner[u], u)
       IN  /\ game_results' = saved.rows
           /\ pod_status' = saved.status
           /\ reporter_pc' = [ reporter_pc EXCEPT ![u] =
                                 IF saved.raised THEN "failed" ELSE "recorded" ]
    /\ UNCHANGED reporter_winner
    /\ UNCHANGED optimizer_vars

\* ConfirmWinnerView.cancel
CancelWinner(u) ==
    /\ reporter_pc[u] = "confirm"
    /\ reporter_pc' = [ reporter_pc EXCEPT ![u] = "cancelled" ]
    /\ UNCHANGED << game_results, pod_status, reporter_winner >>
    /\ UNCHANGED optimizer_vars

\* GamesCog.complete_game (!completegame <pod_id> @winner)
CompleteGameCommand(u, w) ==
    /\ reporter_pc[u] \in CanStart
    /\ IF existing_result(game_results) /= NoChoice
       THEN /\ reporter_pc' = [ reporter_pc EXCEPT ![u] = "rejected" ]
            /\ UNCHANGED << game_results, pod_status >>
       ELSE LET saved == record_game_result(game_results, pod_status, w, u)
            IN  /\ game_results' = saved.rows
                /\ pod_status' = saved.status
                /\ reporter_pc' = [ reporter_pc EXCEPT ![u] =
                                      IF saved.raised THEN "failed" ELSE "recorded" ]
    /\ UNCHANGED reporter_winner
    /\ UNCHANGED optimizer_vars

\* a scheduled pod saved by save_poll_and_pods, before any report
ReportInit == Start(<< >>, << >>)

ReportNext ==
    \E u \in Reporters :
        \/ PressGameCompleted(u)
        \/ \E w \in PodPlayers : SubmitWinner(u, w)
        \/ ConfirmWinner(u)
        \/ CancelWinner(u)
        \/ \E w \in PodPlayers : CompleteGameCommand(u, w)

ReportSpec == ReportInit /\ [][ReportNext]_vars

(***************************************************************************)
(* Vocabulary of the properties, stated on the inputs and the result.      *)
(***************************************************************************)
Done == pc = "done"

Players == 1..Len(availability)

\* the players who listed the day
AvailableOn(day) == { p \in Players : day \in Range(availability[p]) }

DaysOf(p) == Range(availability[p])

AllDays == UNION { DaysOf(p) : p \in Players }

\* the indices of the pods of ps that contain p
PodsOf(ps, p) == { i \in 1..Len(ps) : p \in Range(ps[i].players) }

PodDaysOf(ps, p) == { ps[i].day : i \in PodsOf(ps, p) }

InSomePod(ps, p) == PodsOf(ps, p) /= {}

\* the players available on the day who are in no pod
WaitingOn(ps, day) == { p \in AvailableOn(day) : ~ InSomePod(ps, p) }

HasInvalidDay == \E d \in AllDays : d \notin CanonicalDaySet

\* position of a canonical day in the week, Monday = 0
WeekIndex(day) == CHOOSE k \in 0..6 : CanonicalDays[k + 1] = day

\* the two days are neighbours in the cyclic week (Sunday next to Monday)
CyclicAdjacent(d, e) ==
    /\ d \in CanonicalDaySet /\ e \in CanonicalDaySet
    /\ (WeekIndex(d) - WeekIndex(e)) % 7 \in { 1, 6 }

\* x may be asked to play a second game on the day
EligibleVolunteer(ps, x, day) ==
    /\ InSomePod(ps, x)
    /\ x \in AvailableOn(day)
    /\ Cardinality(DaysOf(x)) >= 2
    /\ PREF_ONE_GAME_ONLY \notin preferences[x]
    /\ PREF_NO_CONSECUTIVE \in preferences[x] =>
           \A e \in PodDaysOf(ps, x) : ~ CyclicAdjacent(day, e)

\* the day is one player short and somebody may be asked
DayQualifies(ps, day) ==
    /\ Cardinality(WaitingOn(ps, day)) = 3
    /\ \E x \in Players : EligibleVolunteer(ps, x, day)

\* some flexible player has two days with exactly 4 available players each
CriticalForBothCondition ==
    \E p \in Players : \E d1, d2 \in DaysOf(p) :
        /\ d1 /= d2
        /\ Cardinality(AvailableOn(d1)) = 4
        /\ Cardinality(AvailableOn(d2)) = 4

\* position of the day in the processing order
PositionOf(day) == CHOOSE i \in 1..Len(sorted_days) : sorted_days[i].day = day

(***************************************************************************)
(* C1: every pod of the result has exactly 4 players, pairwise distinct,   *)
(* each of whom listed the pod's day in their availability.                *)
(***************************************************************************)
C1_PodSizeInvariant ==
    Done => \A i \in 1..Len(result.pods) :
                LET pod == result.pods[i]
                IN  /\ Len(pod.players) = 4
                    /\ NoRepeats(pod.players)
                    /\ \A j \in 1..Len(pod.players) : pod.players[j] \in AvailableOn(pod.day)

\* two pods were formed, one of them drawn from more than 4 available players
C1_Witness ==
    /\ Done
    /\ Len(result.pods) = 2
    /\ \E i \in 1..Len(result.pods) : Cardinality(AvailableOn(result.pods[i].day)) > 4

(***************************************************************************)
(* C2: players_with_games and players_without_games are disjoint and their *)
(* union is the key set of availability, players with an empty day list    *)
(* included.                                                               *)
(***************************************************************************)
C2_CoveragePartition ==
    Done => /\ result.players_with_games \cap result.players_without_games = {}
            /\ result.players_with_games \cup result.players_without_games = Players

\* a pod was formed while some player had voted for no day
C2_Witness ==
    /\ Done
    /\ result.players_with_games /= {}
    /\ \E p \in Players : availability[p] = << >> /\ p \in result.players_without_games

(***************************************************************************)
(* C3: a player with ONE_GAME_ONLY is in at most one pod of the result.    *)
(***************************************************************************)
C3_OneGameOnlyRespected ==
    Done => \A p \in Players :
                PREF_ONE_GAME_ONLY \in preferences[p] =>
                    Cardinality(PodsOf(result.pods, p)) <= 1

\* a ONE_GAME_ONLY player is in a pod and is the 4th player of both days
C3_Witness ==
    /\ Done
    /\ \E p \in Players :
          /\ PREF_ONE_GAME_ONLY \in preferences[p]
          /\ InSomePod(result.pods, p)
          /\ \E d1, d2 \in DaysOf(p) :
                /\ d1 /= d2
                /\ Cardinality(AvailableOn(d1)) = 4
                /\ Cardinality(AvailableOn(d2)) = 4

(***************************************************************************)
(* C4: a player with NO_CONSECUTIVE is never in pods on two days adjacent  *)
(* in the cyclic week (Sunday and Monday are adjacent).                    *)
(***************************************************************************)
C4_NoConsecutiveRespected ==
    Done => \A p \in Players :
                PREF_NO_CONSECUTIVE \in preferences[p] =>
                    \A d1, d2 \in PodDaysOf(result.pods, p) : ~ CyclicAdjacent(d1, d2)

\* a NO_CONSECUTIVE player has a pod on Sunday or Monday and also listed the
\* other of the two, on which 4 players are available
C4_Witness ==
    /\ Done
    /\ \E p \in Players :
          /\ PREF_NO_CONSECUTIVE \in preferences[p]
          /\ \E d \in PodDaysOf(result.pods, p) : \E e \in DaysOf(p) :
                /\ { d, e } = { "Sunday", "Monday" }
                /\ Cardinality(AvailableOn(e)) >= 4

(***************************************************************************)
(* C5: a day value outside the seven canonical weekday names makes the     *)
(* call fail: no result is returned for such an input.                     *)
(***************************************************************************)
C5_InvalidDayFailsFast == Done => ~ HasInvalidDay

(***************************************************************************)
(* C6: the result carries a CriticalForBoth scenario exactly when some     *)
(* player has two of their days with exactly 4 available players each; the *)
(* scenario names such a player and pair of days, and pod1 and pod2 are    *)
(* the 4 players available on day1 and day2.                               *)
(***************************************************************************)
C6_CriticalForBothExactly ==
    Done =>
        LET c == result.choice_required
        IN  /\ (c.scenario = "critical_for_both") <=> CriticalForBothCondition
            /\ c.scenario = "critical_for_both" =>
                  /\ c.player \in Players
                  /\ Cardinality(DaysOf(c.player)) >= 2
                  /\ c.day1 /= c.day2
                  /\ { c.day1, c.day2 } \subseteq DaysOf(c.player)
                  /\ Len(c.pod1) = 4 /\ Range(c.pod1) = AvailableOn(c.day1)
                  /\ Len(c.pod2) = 4 /\ Range(c.pod2) = AvailableOn(c.day2)
                  /\ c.player \in Range(c.pod1) \cap Range(c.pod2)

\* a CriticalForBoth scenario was returned for two days that do not have
\* the same four players
C6_Witness ==
    /\ Done
    /\ result.choice_required.scenario = "critical_for_both"
    /\ Range(result.choice_required.pod1) /= Range(result.choice_required.pod2)

(***************************************************************************)
(* C7 as stated: if some day has exactly 3 players without a pod and a     *)
(* flexible player without preferences who is in a pod is available on it, *)
(* the scenario is DoublePlayNeeded, names that day and lists that player. *)
(***************************************************************************)
\* x is in a pod, lists the day and another one, and has no preferences
FreeFlexibleAssigned(ps, x, day) ==
    /\ InSomePod(ps, x)
    /\ x \in AvailableOn(day)
    /\ Cardinality(DaysOf(x)) >= 2
    /\ preferences[x] = {}

C7_DoublePlayScenarioAsStated ==
    Done => \A day \in AllDays, x \in Players :
                ( /\ Cardinality(WaitingOn(result.pods, day)) = 3
                  /\ FreeFlexibleAssigned(result.pods, x, day) )
                => /\ result.choice_required.scenario = "double_play_needed"
                   /\ result.choice_required.day = day
                   /\ x \in Range(result.choice_required.flexible_candidates)

(***************************************************************************)
(* C7 amended: in that situation, unless the CriticalForBoth condition     *)
(* holds, the scenario is DoublePlayNeeded; it names the first day in      *)
(* processing order that is one player short with somebody to ask, and     *)
(* lists every flexible preference-free pod member available on that day.  *)
(***************************************************************************)
C7_DoublePlayScenario ==
    ( /\ Done
      /\ ~ CriticalForBothCondition
      /\ \E day \in AllDays, x \in Players :
            /\ Cardinality(WaitingOn(result.pods, day)) = 3
            /\ FreeFlexibleAssigned(result.pods, x, day) )
    => LET c == result.choice_required
       IN  /\ c.scenario = "double_play_needed"
           /\ DayQualifies(result.pods, c.day)
           /\ \A e \in AllDays :
                 DayQualifies(result.pods, e) => PositionOf(c.day) <= PositionOf(e)
           /\ \A x \in Players :
                 FreeFlexibleAssigned(result.pods, x, c.day) =>
                     x \in Range(c.flexible_candidates)

\* a DoublePlayNeeded scenario was returned that lists a preference-free
\* flexible player, while a later day is one player short as well
C7_Witness ==
    /\ Done
    /\ result.choice_required.scenario = "double_play_needed"
    /\ \E x \in Players :
          /\ FreeFlexibleAssigned(result.pods, x, result.choice_required.day)
          /\ x \in Range(result.choice_required.flexible_candidates)
    /\ \E e \in AllDays :
          /\ e /= result.choice_required.day
          /\ DayQualifies(result.pods, e)

(***************************************************************************)
(* C8: the result carries at most one choice scenario, and whenever the    *)
(* CriticalForBoth condition holds it is the one returned, also when the   *)
(* double-play pass had found an opportunity.                              *)
(***************************************************************************)
C8_CriticalForBothPrecedence ==
    Done => /\ result.choice_required.scenario \in
                  { "none", "double_play_needed", "critical_for_both" }
            /\ CriticalForBothCondition =>
                  result.choice_required.scenario = "critical_for_both"

\* the double-play pass found an opportunity and CriticalForBoth replaced it
C8_Witness ==
    /\ Done
    /\ double_play_opportunity.scenario = "double_play_needed"
    /\ result.choice_required.scenario = "critical_for_both"

(***************************************************************************)
(* C9: in every DoublePlayNeeded scenario the waiting players are exactly  *)
(* 3 distinct players in no pod and available on the named day; there is   *)
(* a candidate; every candidate is in a pod, available on the named day,   *)
(* available on 2 or more days, without ONE_GAME_ONLY, and with            *)
(* NO_CONSECUTIVE only if the named day is adjacent to none of their days. *)
(***************************************************************************)
C9_DoublePlayScenarioShape ==
    double_play_opportunity.scenario = "double_play_needed" =>
        LET c == double_play_opportunity
        IN  /\ Len(c.waiting_players) = 3
            /\ NoRepeats(c.waiting_players)
            /\ Range(c.waiting_players) \subseteq WaitingOn(pods, c.day)
            /\ Len(c.flexible_candidates) >= 1
            /\ \A i \in 1..Len(c.flexible_candidates) :
                  EligibleVolunteer(pods, c.flexible_candidates[i], c.day)

\* a scenario lists a NO_CONSECUTIVE candidate beside another candidate
C9_Witness ==
    /\ double_play_opportunity.scenario = "double_play_needed"
    /\ Len(double_play_opportunity.flexible_candidates) >= 2
    /\ \E i \in 1..Len(double_play_opportunity.flexible_candidates) :
          PREF_NO_CONSECUTIVE \in preferences[double_play_opportunity.flexible_candidates[i]]

SingleDayOn(day) == { p \in Players : availability[p] = << day >> }

\* 7 players: f lists d1 and d2, three others list d1 only, three d2 only
BridgeScenario(f, d1, d2) ==
    /\ Cardinality(Players) = 7
    /\ d1 /= d2
    /\ DaysOf(f) = { d1, d2 }
    /\ Cardinality(SingleDayOn(d1)) = 3
    /\ Cardinality(SingleDayOn(d2)) = 3

\* the indices of the pods of ps on the day
PodsOn(ps, day) == { i \in 1..Len(ps) : ps[i].day = day }

(***************************************************************************)
(* C11: when two days each have three single-day players plus the same     *)
(* flexible player, and no preference of that player forbids a second      *)
(* game, two pods form, one per day, both containing the flexible player,  *)
(* and all 7 players have games.                                           *)
(***************************************************************************)
C11_FlexiblePlayerFillsBothDays ==
    Done => \A f \in Players : \A d1, d2 \in DaysOf(f) :
                ( /\ BridgeScenario(f, d1, d2)
                  /\ PREF_ONE_GAME_ONLY \notin preferences[f]
                  /\ PREF_NO_CONSECUTIVE \in preferences[f] => ~ CyclicAdjacent(d1, d2) )
                => /\ Len(result.pods) = 2
                   /\ Cardinality(PodsOn(result.pods, d1)) = 1
                   /\ Cardinality(PodsOn(result.pods, d2)) = 1
                   /\ PodsOf(result.pods, f) = { 1, 2 }
                   /\ result.players_with_games = Players
                   /\ result.players_without_games = {}

EightFlexibleScenario ==
    /\ Cardinality(AvailableOn("Monday")) = 8
    /\ \A p \in AvailableOn("Monday") : Cardinality(DaysOf(p)) = 2
    /\ \A d \in AllDays \ { "Monday" } : Cardinality(AvailableOn(d)) < 4

C13_EightFlexibleTwoPods ==
    EightFlexibleScenario =>
        /\ pc \notin { "index", "critical" } =>
              DOMAIN critical_assignments \cap AvailableOn("Monday") = {}
        /\ Done =>
              /\ Cardinality(PodsOn(result.pods, "Monday")) = 2
              /\ UNION { Range(result.pods[i].players) : i \in PodsOn(result.pods, "Monday") }
                    = AvailableOn("Monday")

\* the scenario was run with three other days in use and a ninth player
\* who is left without a game
C13_Witness ==
    /\ Done
    /\ EightFlexibleScenario
    /\ Cardinality(AllDays) = 4
    /\ Len(result.pods) = 2
    /\ result.players_without_games /= {}

(***************************************************************************)
(* C14: days are processed, and their pods appear in result.pods, in       *)
(* descending order of the key (player count is a positive multiple of 4,  *)
(* number of single-day players, total players, earlier weekday): the pods *)
(* of one day are contiguous, and between two days equal on the first      *)
(* three components the earlier weekday's pods come first.                 *)
(***************************************************************************)
\* the first three components of the key of a day
GroupKey(day) ==
    LET n == Cardinality(AvailableOn(day))
    IN  << IF n > 0 /\ n % 4 = 0 THEN 1 ELSE 0, Cardinality(SingleDayOn(day)), n >>

TripleGreater(a, b) ==
    \/ a[1] > b[1]
    \/ a[1] = b[1] /\ a[2] > b[2]
    \/ a[1] = b[1] /\ a[2] = b[2] /\ a[3] > b[3]

\* day d is due before day e
ComesFirst(d, e) ==
    \/ TripleGreater(GroupKey(d), GroupKey(e))
    \/ /\ GroupKey(d) = GroupKey(e)
       /\ (d \in CanonicalDaySet /\ e \in CanonicalDaySet) => WeekIndex(d) < WeekIndex(e)

C14_DayOrder ==
    Done =>
        /\ { sorted_days[i].day : i \in 1..Len(sorted_days) } = AllDays
        /\ \A i, j \in 1..Len(sorted_days) :
              i < j => ComesFirst(sorted_days[i].day, sorted_days[j].day)
        /\ \A i, j \in 1..Len(result.pods) :
              /\ (i < j /\ result.pods[i].day /= result.pods[j].day) =>
                    ComesFirst(result.pods[i].day, result.pods[j].day)
              /\ (i < j /\ result.pods[i].day = result.pods[j].day) =>
                    \A k \in i..j : result.pods[k].day = result.pods[i].day

\* two days equal on the first three components both got a pod, and the
\* later weekday was listed first in the input
C14_Witness ==
    /\ Done
    /\ Len(result.pods) = 2
    /\ result.pods[1].day /= result.pods[2].day
    /\ GroupKey(result.pods[1].day) = GroupKey(result.pods[2].day)
    /\ day_to_players[1].day = result.pods[2].day

(***************************************************************************)
(* C15: empty availability yields an empty result (no pods, both           *)
(* participation sets empty, no choice scenario), and whenever every day   *)
(* has fewer than 4 available players the result has zero pods and every   *)
(* player is in players_without_games.                                     *)
(***************************************************************************)
C15_DegenerateInputs ==
    Done =>
        /\ Players = {} =>
              result = [ pods |-> << >>, players_with_games |-> {},
                         players_without_games |-> {}, choice_required |-> NoChoice ]
        /\ (\A d \in AllDays : Cardinality(AvailableOn(d)) < 4) =>
              /\ result.pods = << >>
              /\ result.players_with_games = {}
              /\ result.players_without_games = Players

\* four or more players, three of them on one day, and no day with 4
C15_Witness ==
    /\ Done
    /\ Cardinality(Players) >= 4
    /\ \A d \in AllDays : Cardinality(AvailableOn(d)) < 4
    /\ \E d \in AllDays : Cardinality(AvailableOn(d)) = 3
    /\ result.players_without_games = Players

(***************************************************************************)
(* C16: when n players are each available only on the same single day,     *)
(* exactly floor(n/4) pods form, all on that day, 4*floor(n/4) players     *)
(* have games and n mod 4 players are without games.                       *)
(***************************************************************************)
C16_SingleDayCapacity ==
    Done => \A d \in AllDays :
                SingleDayOn(d) = Players =>
                    LET n == Cardinality(Players)
                    IN  /\ Len(result.pods) = n \div 4
                        /\ \A i \in 1..Len(result.pods) : result.pods[i].day = d
                        /\ Cardinality(result.players_with_games) = 4 * (n \div 4)
                        /\ Cardinality(result.players_without_games) = n % 4

\* eight players of one day filled two pods
C16_Witness ==
    /\ Done
    /\ \E d \in AllDays : SingleDayOn(d) = Players
    /\ Len(result.pods) = 2
    /\ result.players_without_games = {}

(***************************************************************************)
(* C17: the result contains one IncompletePod record for every day whose   *)
(* leftover player count after pod formation is 1, 2 or 3, listing those   *)
(* players with needed = 4 minus their count.                              *)
(***************************************************************************)
C17_IncompletePodRecords ==
    Done => \A day \in AllDays :
                Cardinality(WaitingOn(result.pods, day)) \in 1..3 =>
                    /\ "incomplete_pods" \in DOMAIN result
                    /\ \E i \in 1..Len(result.incomplete_pods) :
                          /\ result.incomplete_pods[i].day = day
                          /\ Range(result.incomplete_pods[i].players)
                                = WaitingOn(result.pods, day)
                          /\ result.incomplete_pods[i].needed
                                = 4 - Cardinality(WaitingOn(result.pods, day))

(***************************************************************************)
(* C19: the call leaves its inputs unchanged: no step changes the          *)
(* availability mapping (keys, day lists, their order) or the preferences  *)
(* mapping.                                                                *)
(***************************************************************************)
C19_InputsUnchanged ==
    [][ availability' = availability /\ preferences' = preferences ]_vars

\* a call on an input with preferences and a two-day list has returned pods
C19_Witness ==
    /\ Done
    /\ Len(result.pods) > 0
    /\ \E p \in Players : preferences[p] /= {} /\ Len(availability[p]) = 2

(***************************************************************************)
(* C20: after critical-player detection, for every day d with n(d)         *)
(* available players of whom r(d) are reserved to another day,             *)
(* floor((n(d) - r(d)) / 4) = floor(n(d) / 4).                             *)
(***************************************************************************)
\* the players available on the day and reserved to another day
ReservedAwayFrom(day) ==
    { p \in DOMAIN critical_assignments \cap AvailableOn(day) :
        critical_assignments[p] /= day }

C20_ReservationKeepsGroups ==
    pc = "sort" =>
        \A d \in AllDays :
            (Cardinality(AvailableOn(d)) - Cardinality(ReservedAwayFrom(d))) \div 4
                = Cardinality(AvailableOn(d)) \div 4

\* two players were reserved away from the same day
C20_Witness ==
    /\ pc = "sort"
    /\ \E d \in AllDays : Cardinality(ReservedAwayFrom(d)) >= 2

(***************************************************************************)
(* C21: every player the critical-player detector reserves is a flexible   *)
(* player, reserved to a day that has at least 4 available players         *)
(* counting them and fewer than 4 not counting them, and who has at least  *)
(* one other day with at least 4 players not counting them.                *)
(***************************************************************************)
C21_CriticalReservation ==
    pc = "sort" =>
        \A p \in DOMAIN critical_assignments :
            LET X == critical_assignments[p]
            IN  /\ Len(availability[p]) > 1
                /\ Cardinality(AvailableOn(X)) >= 4
                /\ Cardinality(AvailableOn(X) \ { p }) < 4
                /\ \E d \in DaysOf(p) \ { X } : Cardinality(AvailableOn(d) \ { p }) >= 4

(***************************************************************************)
(* C22: a pod on day d never contains a player whom the critical-player    *)
(* detector reserved to a different day X, unless that reservation was     *)
(* released earlier: at the end of a day processed before d, at which X    *)
(* had fewer than 4 unassigned available players.                          *)
(***************************************************************************)
\* the members of the pod who hold a reservation for another day
ReservedElsewhere(pod) ==
    { p \in Range(pod.players) \cap DOMAIN critical_assignments :
        critical_assignments[p] /= pod.day }

\* the reservation of p was released when a day processed before the day ended
ReleasedBefore(p, day) ==
    p \in DOMAIN released_at /\ released_at[p] < PositionOf(day)

C22_ReservedPlayersStayOut ==
    /\ [] ( \A i \in 1..Len(pods) :
               \A p \in ReservedElsewhere(pods[i]) : ReleasedBefore(p, pods[i].day) )
    /\ [] ( Done => result.pods = pods )
    /\ [][ \A p \in DOMAIN released_at' \ DOMAIN released_at :
              /\ pc = "pods"
              /\ released_at'[p] = day_index
              /\ day_index' = day_index + 1
              /\ p \in reserved_players
              /\ Cardinality(AvailableOn(critical_assignments[p]) \ assigned_players) < 4
         ]_vars

\* a released player is in a pod on a day other than the reserved one
C22_Witness ==
    /\ Done
    /\ \E i \in 1..Len(result.pods) :
          \E p \in ReservedElsewhere(result.pods[i]) :
              ReleasedBefore(p, result.pods[i].day)

(***************************************************************************)
(* C23, as stated: a player released at the end of a day because their     *)
(* reserved day can no longer reach 4 unassigned players is not placed in  *)
(* a pod on any day processed later in the same run.                       *)
(***************************************************************************)
C23_ReleasedNotReofferedAsStated ==
    Done => \A p \in DOMAIN released_at : ~ InSomePod(result.pods, p)

(***************************************************************************)
(* C23, amended: at the end of every day each reserved player whose        *)
(* reserved day has fewer than 4 unassigned available players is released; *)
(* a released player is offered again on the days processed later, so a    *)
(* day ends with fewer than 4 players who are unassigned and not held by   *)
(* an unreleased reservation for another day, and a released player's pod  *)
(* is on a day processed after the release.                                *)
(***************************************************************************)
\* the current day of the pod loop has just ended
DayEnds == pc = "pods" /\ day_index' = day_index + 1

\* the players available on the day who have no pod and whom no reservation
\* for another day holds back, a released reservation holding nobody back
FreeOn(day) ==
    { p \in AvailableOn(day) :
        /\ ~ InSomePod(pods, p)
        /\ ( p \in DOMAIN critical_assignments /\ critical_assignments[p] /= day )
              => p \in DOMAIN released_at }

C23_ReleasedOfferedAgain ==
    /\ [][ DayEnds =>
              /\ \A p \in reserved_players :
                    Cardinality(AvailableOn(critical_assignments[p]) \ assigned_players) < 4
                        => p \in DOMAIN released_at' /\ p \notin reserved_players'
              /\ Cardinality(FreeOn(sorted_days[day_index].day)) < 4 ]_vars
    /\ [] ( Done =>
              \A p \in DOMAIN released_at :
                  \A d \in PodDaysOf(result.pods, p) : released_at[p] < PositionOf(d) )

\* a released player has a pod
C23_Witness ==
    /\ Done
    /\ \E p \in DOMAIN released_at : InSomePod(result.pods, p)

(***************************************************************************)
(* C24: on each day, every pod consists of the first four currently        *)
(* eligible players in the day's vote-insertion order, listed in that      *)
(* order, successive pods taking successive groups; when the day's         *)
(* processing ends fewer than 4 eligible players remain on it.  Players    *)
(* are numbered in the order of the availability keys, which is the order  *)
(* in which their votes enter every day's list.                            *)
(***************************************************************************)
\* the players available on the day who are unassigned and not reserved
\* for another day
EligibleNow(day) ==
    { p \in AvailableOn(day) \ assigned_players :
        ~ ( p \in reserved_players /\ critical_assignments[p] /= day ) }

\* q lists, in voting order, the four earliest voters of S
FirstFourOf(q, S) ==
    /\ Len(q) = 4
    /\ Range(q) \subseteq S
    /\ \A i \in 1..3 : q[i] < q[i + 1]
    /\ \A p \in S \ Range(q) : q[4] < p

C24_FirstFourEligible ==
    [][ pc = "pods" =>
          LET day == sorted_days[day_index].day
          IN  /\ pods' /= pods =>
                    /\ Len(pods') = Len(pods) + 1
                    /\ SubSeq(pods', 1, Len(pods)) = pods
                    /\ pods'[Len(pods')].day = day
                    /\ FirstFourOf(pods'[Len(pods')].players, EligibleNow(day))
                    /\ day_index' = day_index
              /\ DayEnds => pods' = pods /\ Cardinality(EligibleNow(day)) < 4 ]_vars

\* a pod passed over an earlier voter of its day, who was held by a
\* reservation for another day, and took the next four
C24_Witness ==
    /\ Done
    /\ \E i \in 1..Len(result.pods) :
          \E p \in AvailableOn(result.pods[i].day) \ Range(result.pods[i].players) :
              /\ p < result.pods[i].players[1]
              /\ p \in DOMAIN critical_assignments
              /\ critical_assignments[p] /= result.pods[i].day
              /\ \A d \in PodDaysOf(result.pods, p) :
                    PositionOf(result.pods[i].day) < PositionOf(d)

(***************************************************************************)
(* C25: the pod-forming loop terminates: each iteration of the per-day     *)
(* loop puts 4 previously unassigned players into the assigned set, which  *)
(* never shrinks, so a day's loop runs at most floor(players / 4) times    *)
(* and the run reaches the result-assembly step.                           *)
(***************************************************************************)
C25_PodLoopTerminates ==
    /\ [][ /\ assigned_players \subseteq assigned_players'
           /\ pods' /= pods =>
                 /\ pc = "pods"
                 /\ Len(pods') = Len(pods) + 1
                 /\ Cardinality(assigned_players' \ assigned_players) = 4 ]_vars
    /\ [] ( \A d \in AllDays :
               Cardinality(PodsOn(pods, d)) <= Cardinality(AvailableOn(d)) \div 4 )
    /\ ( pc = "pods" ) ~> ( pc = "assemble" )

\* the loop ran twice on one day and the run went on to assemble the result
C25_Witness ==
    /\ pc = "assemble"
    /\ \E d \in AllDays : Cardinality(PodsOn(pods, d)) = 2

(***************************************************************************)
(* C26: the formatted output of a result lists every formed pod under its  *)
(* day, also when the result carries a choice scenario (CriticalForBoth or *)
(* DoublePlayNeeded).                                                      *)
(***************************************************************************)
\* line k of the text lists the pod and the day heading above it is the
\* pod's day, or line k is a "potential pod" line of that day with the
\* pod's players
ListsPodAt(text, k, pod) ==
    \/ /\ text[k].kind = "pod"
       /\ text[k].players = pod.players
       /\ \E j \in 1..(k - 1) :
             /\ text[j].kind = "day"
             /\ text[j].day = pod.day
             /\ \A m \in (j + 1)..(k - 1) : text[m].kind /= "day"
    \/ /\ text[k].kind = "potential"
       /\ text[k].day = pod.day
       /\ text[k].players = pod.players

C26_OutputListsEveryPod ==
    pc = "formatted" =>
        \A i \in 1..Len(result.pods) :
            \E k \in 1..Len(message) : ListsPodAt(message, k, result.pods[i])

(***************************************************************************)
(* C27: no player appears in more than one pod of a result, whatever their *)
(* preferences (a player with no preference is never given a second pod),  *)
(* so players_with_games is exactly the union of the pods' members and its *)
(* size is 4 times the number of pods.                                     *)
(***************************************************************************)
\* the number of seats the player takes in the pods
SeatsOf(ps, p) ==
    Cardinality({ << i, k >> \in (1..Len(ps)) \X (1..PodSize) :
                    k <= Len(ps[i].players) /\ ps[i].players[k] = p })

SomeDayHasFour == \E d \in AllDays : Cardinality(AvailableOn(d)) >= 4

C28_SomePodIsFormed ==
    /\ Done /\ SomeDayHasFour => Len(result.pods) >= 1
    /\ pc = "formatted" /\ SomeDayHasFour =>
          \A k \in 1..Len(message) : message[k].kind /= "no_pods"

\* the only day with 4 available players has a reserved player among them,
\* who has preferences, and the text lists a pod
C28_Witness ==
    /\ pc = "formatted"
    /\ \E k \in 1..Len(message) : message[k].kind = "pod"
    /\ \E d \in AllDays :
          /\ \A e \in AllDays : Cardinality(AvailableOn(e)) >= 4 <=> e = d
          /\ \E p \in AvailableOn(d) \cap DOMAIN critical_assignments :
                preferences[p] /= {}

(***************************************************************************)
(* C29, as stated: pod formation is independent of preferences: for every  *)
(* availability A and preference map P, optimize(A, P) and optimize(A, {}) *)
(* return the same pods, players_with_games and players_without_games;     *)
(* preferences can only change the flexible_candidates of a                *)
(* DoublePlayNeeded scenario.                                              *)
(***************************************************************************)
\* the result of the call on the same availability with no preferences
WithoutPreferences == optimize_pods(availability, NoPreferences(Len(availability)))

\* the two results have the same pods and the same two player sets
SamePods(r1, r2) ==
    /\ r1.pods = r2.pods
    /\ r1.players_with_games = r2.players_with_games
    /\ r1.players_without_games = r2.players_without_games

\* the two scenarios are equal up to the candidates of a DoublePlayNeeded
SameUpToCandidates(c1, c2) ==
    \/ c1 = c2
    \/ /\ c1.scenario = "double_play_needed"
       /\ c2.scenario = "double_play_needed"
       /\ c1.day = c2.day
       /\ c1.waiting_players = c2.waiting_players

C30_OneResultPerPod ==
    /\ [] ( /\ Len(game_results) <= 1
            /\ game_results /= << >> => pod_status = "completed" )
    /\ [][ game_results /= << >> =>
              /\ game_results' = game_results
              /\ \A u \in Reporters :
                    /\ reporter_pc'[u] = "recorded" => reporter_pc[u] = "recorded"
                    /\ ( reporter_pc[u] = "confirm" /\ reporter_pc'[u] /= "confirm" )
                          => reporter_pc'[u] \in { "failed", "cancelled" } ]_vars

\* two users confirmed different winners: the first is stored, the second failed
C30_Witness ==
    \E u, v \in Reporters :
        /\ reporter_pc[u] = "recorded"
        /\ reporter_pc[v] = "failed"
        /\ reporter_winner[u] /= reporter_winner[v]
        /\ game_results = << [ winner_id |-> reporter_winner[u], reported_by_id |-> u ] >>
        /\ pod_status = "completed"

====
